---------------------------- MODULE Spec2Model ----------------------------
(***************************************************************************)
(* The dual-motor speed/direction controller of pluto_pico                 *)
(* (motordriver.c and the motor1/motor2/motors shell commands).            *)
(*                                                                         *)
(* Execution contexts: the shell thread (one command at a time), one       *)
(* caller of motordriver_stop_motors (emergency button / sensor thread),   *)
(* and one timer-expiry context per motor.  A context that has called      *)
(* k_mutex_lock(K_FOREVER) stays at its "..lock" position until the mutex  *)
(* is free or already its own (k_mutex is recursive).                      *)
(*                                                                         *)
(* uint32_t values are held as their 32-bit pattern read as a signed       *)
(* integer (two's complement): 0xFFFFFFFB is -5.  Addition and subtraction *)
(* are then the machine's, and the unsigned order is ULess.                *)
(***************************************************************************)
EXTENDS Integers, Sequences, FiniteSets, TLC

\* ------------------------------------------------------------- bounds
MaxCmds == 2        \* shell commands issued in one run
MaxPwmFail == 1     \* pwm_set calls that return an error in one run

\* ---------------------------------------------------- program constants
PwmPeriodNs == 50000            \* PWM_USEC(50)
DefaultRate == 10               \* .acceleration_rate / .braking_rate
DefaultRateDelay == 100         \* .acceleration_rate_delay / .braking_rate_delay
ADJUST_SPEED_DELAY_MS == 5
CHECK_INTERVAL_MS == 10
WAIT_DIR_CHANGE_INTERVAL_MS == 100

Motors == {1, 2}
Other(m) == 3 - m

\* ------------------------------------------------ unsigned arithmetic
\* a < b on uint32_t bit patterns
ULess(a, b) == IF (a >= 0) = (b >= 0) THEN a < b ELSE a >= 0
UGreater(a, b) == ULess(b, a)
\* variant: MIN on the bit patterns read as signed integers
UMin_Signed(a, b) == IF a < b THEN a ELSE b
\* MIN(a, b) of zephyr/sys/util.h on uint32_t operands
UMin(a, b) == IF ULess(a, b) THEN a ELSE b

\* ------------------------------------------------------ shell parsing
\* simple_strtou8: decimal digits accumulated in a uint8_t
RECURSIVE StrtouAcc(_, _, _)
StrtouAcc(str, acc, width) ==
    IF str = <<>> \/ Head(str) \notin 0..9 THEN acc
    ELSE StrtouAcc(Tail(str), (acc * 10 + Head(str)) % width, width)
simple_strtou8(str) == StrtouAcc(str, 0, 256)

\* ------------------------------------------------------------- state
VARIABLES
    motor,      \* motor1, motor2: the mutable fields of motor_t
    pwm_duty,   \* duty cycle last applied by pwm_set, -1 before the first write
    dir_pin,    \* level last written to the direction GPIO, -1 before the first write
    mutex,      \* motor1_mutex, motor2_mutex: owner and lock count
    timer,      \* motor1_timer, motor2_timer: 0 stopped, else the armed duration in ms
    tpc,        \* position of each motor's timer expiry function
    sh,         \* the shell thread: the command it runs and its position in it
    epc,        \* position of the caller of motordriver_stop_motors
    budget,     \* what is left of MaxCmds and MaxPwmFail
    hist        \* history of the current non-blocking ramp (where it is recorded)

vars == <<motor, pwm_duty, dir_pin, mutex, timer, tpc, sh, epc, budget, hist>>

TimerCtx(m) == IF m = 1 THEN "timer1" ELSE "timer2"

\* ------------------------------------------------------------ k_mutex
Free == [owner |-> "none", lock_count |-> 0]
\* variant: a k_mutex_unlock that releases nothing
Unlock_Keep(mx, ctx) == mx

\* variant: a k_mutex_unlock that frees the mutex whatever its lock count
Unlock_NotRecursive(mx, ctx) == IF mx.owner # ctx THEN mx ELSE Free

\* k_mutex_lock returns at once when the mutex is free or the caller owns it
CanLock(mx, ctx) == mx.owner = "none" \/ mx.owner = ctx
Lock(mx, ctx) == [owner |-> ctx, lock_count |-> mx.lock_count + 1]
Unlock(mx, ctx) ==
    IF mx.owner # ctx THEN mx
    ELSE IF mx.lock_count > 1 THEN [mx EXCEPT !.lock_count = @ - 1]
    ELSE Free

\* --------------------------------------------------------- set_speed
\* what set_speed(motor, speed_percent) leaves behind; ok: pwm_set returned >= 0.
\* The result is the motor record and the duty cycle on the pin.
\* variant: speed_percent read as a signed int and clamped to 0..100
Clamp100_Signed(p) == IF p > 100 THEN 100 ELSE IF p < 0 THEN 0 ELSE p
\* "if (speed_percent > 100) speed_percent = 100;" on a uint32_t
Clamp100(p) == IF UGreater(p, 100) THEN 100 ELSE p
DutyCycleNs(p) == (PwmPeriodNs * Clamp100(p)) \div 100
set_speed_AlwaysStore(mot, duty, speed_percent, ok) ==
    [mot |-> [mot EXCEPT !.speed = Clamp100(speed_percent)],
     duty |-> IF ok THEN DutyCycleNs(speed_percent) ELSE duty]
set_speed(mot, duty, speed_percent, ok) ==
    IF ok THEN [mot |-> [mot EXCEPT !.speed = Clamp100(speed_percent)],
                duty |-> DutyCycleNs(speed_percent)]
    ELSE [mot |-> mot, duty |-> duty]

\* the outcomes pwm_set may have while failures are left in the budget
PwmOutcomes == IF budget.fails > 0 THEN {TRUE, FALSE} ELSE {TRUE}
SpendFail(ok) == IF ok THEN budget.fails ELSE budget.fails - 1

\* --------------------------------------- timer expiry: one ramp step
\* variant: a handler that steps by the full rate without the MIN
TimerStepSpeed_NoMin(mot) ==
    IF ULess(mot.speed, mot.target_speed) THEN mot.speed + mot.acceleration_rate
    ELSE IF UGreater(mot.speed, mot.target_speed) THEN mot.speed - mot.braking_rate
    ELSE mot.speed

\* the speed field after the handler's "motor->speed += / -=" statement
TimerStepSpeed(mot) ==
    IF ULess(mot.speed, mot.target_speed)
    THEN mot.speed + UMin(mot.acceleration_rate, mot.target_speed - mot.speed)
    ELSE IF UGreater(mot.speed, mot.target_speed)
    THEN mot.speed - UMin(mot.braking_rate, mot.speed - mot.target_speed)
    ELSE mot.speed

\* variant: a handler that never re-arms its timer
TimerRearm_Never(mot) == 0

\* the duration the handler re-arms the timer with (0: it does not)
TimerRearm(mot) ==
    IF mot.speed # mot.target_speed
    THEN IF ULess(mot.speed, mot.target_speed) THEN mot.acceleration_rate_delay
         ELSE mot.braking_rate_delay
    ELSE 0

\* --------------------- motordriver_adjust_motor_speed_non_blocking
RatesNonZero(mot) == ~(mot.acceleration_rate = 0 \/ mot.braking_rate = 0)
\* the body between k_mutex_lock and k_mutex_unlock
\* variant: an adjust call that starts the timer whatever the target was
AdjustTarget_AlwaysStart(mot, target_speed) ==
    [mot |-> [mot EXCEPT !.target_speed = UMin(target_speed, 100)], start |-> TRUE]

AdjustTarget(mot, target_speed) ==
    LET new_target_speed == UMin(target_speed, 100)
    IN  IF mot.target_speed # new_target_speed
        THEN [mot |-> [mot EXCEPT !.target_speed = new_target_speed],
              start |-> TRUE]
        ELSE [mot |-> mot, start |-> FALSE]

\* --------------------------- motordriver_adjust_motor_speed_blocking
\* the speed field after the loop body's "motor->speed += / -=" statement
BlockingStepSpeed(mot, target_speed) ==
    IF ULess(mot.speed, target_speed)
    THEN mot.speed + (IF UGreater(mot.speed + mot.acceleration_rate, target_speed)
                      THEN target_speed - mot.speed ELSE mot.acceleration_rate)
    ELSE mot.speed - (IF ULess(mot.speed - mot.braking_rate, target_speed)
                      THEN mot.speed - target_speed ELSE mot.braking_rate)


\* --------------------------------------------------- the shell thread
\* sh.op: the command; sh.phase: where set_motors is; sh.pc: the position in the
\* function being executed on motor sh.m with argument sh.val / sh.dir;
\* sh.arg: argv[1] of a set-speed or Zset-speed command, as typed.
\* Positions are the places where the thread can be seen by the others: waiting
\* for a mutex ("aa_lock", "sd_lock", "ss_lock"), asleep in k_msleep ("sd_ramp",
\* "sm_poll", "sm_settle"), or about to touch a motor field without the mutex
\* ("get_read", "cfg_write", "sm_start", "sm_poll").
IdleShell ==
    [op |-> "none", phase |-> "none", pc |-> "idle", m |-> 0, arg |-> <<>>,
     val |-> 0, dir |-> FALSE, need |-> <<FALSE, FALSE>>, spd |-> <<0, 0>>,
     dirs |-> <<FALSE, FALSE>>]

\* variant: set_motors without its monitoring loop
PhaseAfter_NoPoll(ph) ==
    CASE ph \in {"stop1", "stop2", "poll"} -> "settle"
      [] ph = "settle" -> "dir1" [] ph = "dir1" -> "dir2" [] ph = "dir2" -> "go1"
      [] ph = "go1" -> "go2" [] OTHER -> "done"

\* variant: set_motors without its last statement
PhaseAfter_SkipGo2(ph) ==
    CASE ph = "stop1" -> "stop2" [] ph = "stop2" -> "poll" [] ph = "poll" -> "settle"
      [] ph = "settle" -> "dir1" [] ph = "dir1" -> "dir2" [] ph = "dir2" -> "go1"
      [] OTHER -> "done"

PhaseAfter(ph) ==
    CASE ph = "stop1" -> "stop2" [] ph = "stop2" -> "poll" [] ph = "poll" -> "settle"
      [] ph = "settle" -> "dir1" [] ph = "dir1" -> "dir2" [] ph = "dir2" -> "go1"
      [] ph = "go1" -> "go2" [] OTHER -> "done"

RECURSIVE set_motors_from(_, _, _)
RECURSIVE ShReturn(_, _)

\* a call of motordriver_adjust_motor_speed_non_blocking(m, target) up to its
\* k_mutex_lock: with a zero rate it has already returned
CallAdjust(s, ph, m, target, mots) ==
    LET c == [s EXCEPT !.phase = ph, !.pc = "aa_lock", !.m = m, !.val = target]
    IN  IF RatesNonZero(mots[m]) THEN c ELSE ShReturn(c, mots)

\* a call of motordriver_set_dir(m, d) up to its k_mutex_lock
CallSetDir(s, ph, m, d) ==
    [s EXCEPT !.phase = ph, !.pc = "sd_lock", !.m = m, !.dir = d, !.val = 0]

\* set_motors from the statement that opens phase ph
set_motors_from(s, ph, mots) ==
    CASE ph = "stop1" -> IF s.need[1] THEN CallAdjust(s, "stop1", 1, 0, mots)
                         ELSE set_motors_from(s, "stop2", mots)
      [] ph = "stop2" -> IF s.need[2] THEN CallAdjust(s, "stop2", 2, 0, mots)
                         ELSE set_motors_from(s, "poll", mots)
      [] ph = "poll" -> [s EXCEPT !.phase = "poll", !.pc = "sm_poll", !.m = 0, !.val = 0]
      [] ph = "settle" -> IF s.need[1] \/ s.need[2]
                          THEN [s EXCEPT !.phase = "settle", !.pc = "sm_settle",
                                         !.m = 0, !.val = 0]
                          ELSE set_motors_from(s, "dir1", mots)
      [] ph = "dir1" -> IF s.need[1] THEN CallSetDir(s, "dir1", 1, s.dirs[1])
                        ELSE set_motors_from(s, "dir2", mots)
      [] ph = "dir2" -> IF s.need[2] THEN CallSetDir(s, "dir2", 2, s.dirs[2])
                        ELSE set_motors_from(s, "go1", mots)
      [] ph = "go1" -> CallAdjust([s EXCEPT !.dir = FALSE], "go1", 1, s.spd[1], mots)
      [] ph = "go2" -> CallAdjust(s, "go2", 2, s.spd[2], mots)
      [] OTHER -> IdleShell

\* the shell after the function at s.pc has returned
ShReturn(s, mots) ==
    IF s.op = "set_motors" THEN set_motors_from(s, PhaseAfter(s.phase), mots)
    ELSE IdleShell

Booted == sh.pc # "init"

\* ------------------------------------------------------------- Init
\* The static initialisers of motor1 and motor2; the main thread is about to call
\* motordriver_init.
InitMotorRecord ==
    [direction |-> FALSE, speed |-> 0, target_speed |-> 0,
     acceleration_rate |-> DefaultRate, acceleration_rate_delay |-> DefaultRateDelay,
     braking_rate |-> DefaultRate, braking_rate_delay |-> DefaultRateDelay]

NoHist ==
    [on |-> FALSE, open |-> <<FALSE, FALSE>>, from |-> <<0, 0>>, to |-> <<0, 0>>,
     ticks |-> <<0, 0>>]

Init ==
    /\ motor = [m \in Motors |-> InitMotorRecord]
    /\ pwm_duty = [m \in Motors |-> -1]
    /\ dir_pin = [m \in Motors |-> -1]
    /\ mutex = [m \in Motors |-> Free]
    /\ timer = [m \in Motors |-> 0]
    /\ tpc = [m \in Motors |-> "idle"]
    /\ sh = [IdleShell EXCEPT !.op = "init", !.pc = "init", !.m = 1]
    /\ epc = [pc |-> "idle", m |-> 0]
    /\ budget = [cmds |-> MaxCmds, fails |-> MaxPwmFail]
    /\ hist = NoHist

\* history: a k_timer_start from the adjust call opens a ramp, a completed
\* expiry function is one tick of it
HistStart(m, from, to) ==
    IF hist.on THEN [hist EXCEPT !.open[m] = TRUE, !.from[m] = from, !.to[m] = to,
                                 !.ticks[m] = 0]
    ELSE hist
HistTick(m) == IF hist.on THEN [hist EXCEPT !.ticks[m] = @ + 1] ELSE hist

\* init_motor(&motor1); init_motor(&motor2).  motordriver_set_dir finds
\* direction == initial_direction and the blocking ramp finds speed ==
\* initial_speed, so neither the GPIO nor the PWM is written.
init_motor(m) ==
    /\ sh.pc = "init" /\ sh.m = m
    /\ motor[m].direction = FALSE
    /\ motor[m].acceleration_rate = 0 \/ motor[m].speed = 0
    /\ mutex' = [mutex EXCEPT ![m] = Unlock(Lock(Free, "shell"), "shell")]
    /\ timer' = [timer EXCEPT ![m] = 0]
    /\ sh' = IF m = 1 THEN [sh EXCEPT !.m = 2] ELSE IdleShell
    /\ UNCHANGED <<motor, pwm_duty, dir_pin, tpc, epc, budget, hist>>

\* ------------------------------------------------ the timer contexts
\* motor_speed_adjust_timer_expiry_function from k_mutex_lock's return to the
\* "motor->speed += / -=" statement; with speed == target_speed the handler
\* has nothing left but the unlock.
HandlerEnter(m) ==
    /\ IF motor[m].speed # motor[m].target_speed
       THEN /\ motor' = [motor EXCEPT ![m].speed = TimerStepSpeed(motor[m])]
            /\ mutex' = [mutex EXCEPT ![m] = Lock(@, TimerCtx(m))]
            /\ tpc' = [tpc EXCEPT ![m] = "apply"]
            /\ hist' = hist
       ELSE /\ mutex' = [mutex EXCEPT ![m] = Unlock(Lock(@, TimerCtx(m)), TimerCtx(m))]
            /\ tpc' = [tpc EXCEPT ![m] = "idle"]
            /\ hist' = HistTick(m)
            /\ UNCHANGED motor
    /\ UNCHANGED <<pwm_duty, dir_pin, sh, epc, budget>>

\* the one-shot timer expires: its expiry function is called and gets the mutex
TimerExpire(m) ==
    /\ Booted
    /\ timer[m] # 0 /\ tpc[m] = "idle"
    /\ CanLock(mutex[m], TimerCtx(m))
    /\ timer' = [timer EXCEPT ![m] = 0]
    /\ HandlerEnter(m)

\* the timer expires while the mutex is held: k_mutex_lock(K_FOREVER) waits
TimerExpireWait(m) ==
    /\ Booted
    /\ timer[m] # 0 /\ tpc[m] = "idle"
    /\ ~CanLock(mutex[m], TimerCtx(m))
    /\ timer' = [timer EXCEPT ![m] = 0]
    /\ tpc' = [tpc EXCEPT ![m] = "lock"]
    /\ UNCHANGED <<motor, pwm_duty, dir_pin, mutex, sh, epc, budget, hist>>

\* the waiting expiry function gets the mutex
TimerLock(m) ==
    /\ tpc[m] = "lock"
    /\ CanLock(mutex[m], TimerCtx(m))
    /\ UNCHANGED timer
    /\ HandlerEnter(m)


\* ... set_speed(motor, motor->speed), the re-arm decision and k_mutex_unlock
TimerApply(m) ==
    /\ tpc[m] = "apply"
    /\ \E ok \in PwmOutcomes :
         LET ctx == TimerCtx(m)
             r == set_speed(motor[m], pwm_duty[m], motor[m].speed, ok)
         IN  /\ motor' = [motor EXCEPT ![m] = r.mot]
             /\ pwm_duty' = [pwm_duty EXCEPT ![m] = r.duty]
             /\ timer' = [timer EXCEPT ![m] = IF TimerRearm(r.mot) # 0
                                               THEN TimerRearm(r.mot) ELSE @]
             /\ mutex' = [mutex EXCEPT ![m] =
                            Unlock(Unlock(Lock(@, ctx), ctx), ctx)]
             /\ budget' = [budget EXCEPT !.fails = SpendFail(ok)]
    /\ tpc' = [tpc EXCEPT ![m] = "idle"]
    /\ hist' = HistTick(m)
    /\ UNCHANGED <<dir_pin, sh, epc>>

\* ---------------- motordriver_adjust_motor_speed_non_blocking, shell
\* k_mutex_lock returns; the body; k_mutex_unlock
ShAdjustLocked ==
    /\ sh.pc = "aa_lock"
    /\ CanLock(mutex[sh.m], "shell")
    /\ LET r == AdjustTarget(motor[sh.m], sh.val)
       IN  /\ motor' = [motor EXCEPT ![sh.m] = r.mot]
           /\ timer' = [timer EXCEPT ![sh.m] =
                          IF r.start THEN ADJUST_SPEED_DELAY_MS ELSE @]
           /\ hist' = IF r.start
                      THEN HistStart(sh.m, r.mot.speed, r.mot.target_speed)
                      ELSE hist
           /\ sh' = ShReturn(sh, motor')
    /\ mutex' = [mutex EXCEPT ![sh.m] = Unlock(Lock(@, "shell"), "shell")]
    /\ UNCHANGED <<pwm_duty, dir_pin, tpc, epc, budget>>

\* ----------------------------------------- motordriver_set_dir, shell
\* k_mutex_lock returns; with the direction already dir the function unlocks
\* and returns, otherwise it enters the blocking ramp with the mutex held.
\* variant: a set_dir that goes on whatever the direction is
SetDirNeeded_Always(mot, dir) == TRUE

\* the test "motor->direction != dir"
SetDirNeeded(mot, dir) == mot.direction # dir

ShSetDirLock ==
    /\ sh.pc = "sd_lock"
    /\ CanLock(mutex[sh.m], "shell")
    /\ IF SetDirNeeded(motor[sh.m], sh.dir)
       THEN /\ mutex' = [mutex EXCEPT ![sh.m] = Lock(@, "shell")]
            /\ sh' = [sh EXCEPT !.pc = "sd_ramp"]
       ELSE /\ mutex' = [mutex EXCEPT ![sh.m] = Unlock(Lock(@, "shell"), "shell")]
            /\ sh' = ShReturn(sh, motor)
    /\ UNCHANGED <<motor, pwm_duty, dir_pin, timer, tpc, epc, budget, hist>>

\* variant: set_dir without its blocking ramp
BlockingRampDone_NoRamp(mot, target_speed) == TRUE
\* variant: a blocking ramp without the test of acceleration_rate
BlockingRampDone_NoRateTest(mot, target_speed) == mot.speed = Clamp100(target_speed)

\* the blocking ramp is over: acceleration_rate == 0 on entry, or the loop
\* condition motor->speed != target_speed is false
BlockingRampDone(mot, target_speed) ==
    mot.acceleration_rate = 0 \/ mot.speed = Clamp100(target_speed)

\* one iteration of the loop of motordriver_adjust_motor_speed_blocking:
\* the speed field, set_speed, and the thread asleep in k_msleep
BlockingStep(mot, duty, target_speed, ok) ==
    LET stepped == [mot EXCEPT !.speed = BlockingStepSpeed(mot, Clamp100(target_speed))]
    IN  set_speed(stepped, duty, stepped.speed, ok)

\* one iteration of the ramp with the mutex held, or, the ramp over, the
\* direction write, gpio_pin_set and k_mutex_unlock
ShSetDirRamp ==
    /\ sh.pc = "sd_ramp"
    /\ IF BlockingRampDone(motor[sh.m], sh.val)
       THEN /\ motor' = [motor EXCEPT ![sh.m].direction = sh.dir]
            /\ dir_pin' = [dir_pin EXCEPT ![sh.m] = IF sh.dir THEN 1 ELSE 0]
            /\ mutex' = [mutex EXCEPT ![sh.m] = Unlock(@, "shell")]
            /\ sh' = ShReturn(sh, motor')
            /\ UNCHANGED <<pwm_duty, budget>>
       ELSE /\ \E ok \in PwmOutcomes :
                 LET r == BlockingStep(motor[sh.m], pwm_duty[sh.m], sh.val, ok)
                 IN  /\ motor' = [motor EXCEPT ![sh.m] = r.mot]
                     /\ pwm_duty' = [pwm_duty EXCEPT ![sh.m] = r.duty]
                     /\ budget' = [budget EXCEPT !.fails = SpendFail(ok)]
            /\ mutex' = [mutex EXCEPT ![sh.m] = Unlock(Lock(@, "shell"), "shell")]
            /\ UNCHANGED <<dir_pin, sh>>
    /\ UNCHANGED <<timer, tpc, epc, hist>>

\* ------------------------- set_speed called from the shell (Zset-speed)
ShSetSpeedLocked ==
    /\ sh.pc = "ss_lock"
    /\ CanLock(mutex[sh.m], "shell")
    /\ \E ok \in PwmOutcomes :
         LET r == set_speed(motor[sh.m], pwm_duty[sh.m], sh.val, ok)
         IN  /\ motor' = [motor EXCEPT ![sh.m] = r.mot]
             /\ pwm_duty' = [pwm_duty EXCEPT ![sh.m] = r.duty]
             /\ budget' = [budget EXCEPT !.fails = SpendFail(ok)]
             /\ sh' = ShReturn(sh, motor')
    /\ mutex' = [mutex EXCEPT ![sh.m] = Unlock(Lock(@, "shell"), "shell")]
    /\ UNCHANGED <<dir_pin, timer, tpc, epc, hist>>

\* ------------------------------------------ get-* and config-* commands
\* cmd_motorX_get_speed / get_dir / get_motor: the fields are read and printed
ShGetRead ==
    /\ sh.pc = "get_read"
    /\ sh' = ShReturn(sh, motor)
    /\ UNCHANGED <<motor, pwm_duty, dir_pin, mutex, timer, tpc, epc, budget, hist>>

\* cmd_motorX_config_acc_rate / config_brak_rate: the accepted rate is stored
ShConfigWrite ==
    /\ sh.pc = "cfg_write"
    /\ motor' = IF sh.op = "config_acc_rate"
                THEN [motor EXCEPT ![sh.m].acceleration_rate = sh.val]
                ELSE [motor EXCEPT ![sh.m].braking_rate = sh.val]
    /\ sh' = ShReturn(sh, motor')
    /\ UNCHANGED <<pwm_duty, dir_pin, mutex, timer, tpc, epc, budget, hist>>

\* --------------------------------------------------------- set_motors
\* needToStopM1 / needToStopM2 are computed from the direction fields
ShMotorsStart ==
    /\ sh.pc = "sm_start"
    /\ sh' = set_motors_from(
                [sh EXCEPT !.need = <<motor[1].direction # sh.dirs[1],
                                      motor[2].direction # sh.dirs[2]>>],
                "stop1", motor)
    /\ UNCHANGED <<motor, pwm_duty, dir_pin, mutex, timer, tpc, epc, budget, hist>>

\* variant: a loop that monitors motor1 only
MotorsStillMoving_FirstOnly(need, mots) == need[1] /\ mots[1].speed # 0

\* the condition of the while loop that monitors the speed fields
MotorsStillMoving(need, mots) ==
    \/ need[1] /\ mots[1].speed # 0
    \/ need[2] /\ mots[2].speed # 0

\* one evaluation of the loop condition: k_msleep(CHECK_INTERVAL_MS) and
\* again, or on to the settle interval
ShMotorsPoll ==
    /\ sh.pc = "sm_poll"
    /\ sh' = IF MotorsStillMoving(sh.need, motor) THEN sh
             ELSE set_motors_from(sh, "settle", motor)
    /\ UNCHANGED <<motor, pwm_duty, dir_pin, mutex, timer, tpc, epc, budget, hist>>

\* k_msleep(WAIT_DIR_CHANGE_INTERVAL_MS) is over
ShMotorsSettle ==
    /\ sh.pc = "sm_settle"
    /\ sh' = set_motors_from(sh, "dir1", motor)
    /\ UNCHANGED <<motor, pwm_duty, dir_pin, mutex, timer, tpc, epc, budget, hist>>


\* ------------------------------------------------- the shell commands
\* the argument strings typed at the shell, as digit sequences
DirArgs == {<<0>>, <<1>>}
SpeedArgs == {<<0>>, <<5>>, <<2, 0>>}
UnsafeSpeedArgs == {<<5>>, <<1, 5, 0>>}
RateArgs == {<<0>>, <<3, 0>>}
MotorsSpeedArgs == {<<0>>, <<2, 0>>}

\* simple_strtou32 on strings of at most nine digits (no wrap-around)
simple_strtou32(str) == StrtouAcc(str, 0, 1000000000)

\* the shell thread takes the next command line and calls its handler
Dispatch(s) ==
    /\ sh.pc = "idle"
    /\ budget.cmds > 0
    /\ budget' = [budget EXCEPT !.cmds = @ - 1]
    /\ sh' = s
    /\ UNCHANGED <<motor, pwm_duty, dir_pin, mutex, timer, tpc, epc, hist>>

\* motorX set-dir <0/1>
cmd_motor_set_dir(m, str) ==
    Dispatch(CallSetDir([IdleShell EXCEPT !.op = "set_dir"], "none", m,
                        simple_strtou8(str) # 0))

\* motorX set-speed <0-100>
cmd_motor_set_speed(m, str) ==
    Dispatch(CallAdjust([IdleShell EXCEPT !.op = "set_speed", !.arg = str], "none", m,
                        simple_strtou8(str), motor))

\* motorX Zset-speed <0-100>
cmd_motor_unsafe_set_speed(m, str) ==
    Dispatch([IdleShell EXCEPT !.op = "unsafe_set_speed", !.pc = "ss_lock", !.m = m,
                               !.arg = str, !.val = simple_strtou8(str)])

\* motorX get-speed / get-dir / get-motor
cmd_motor_get_motor(m) ==
    Dispatch([IdleShell EXCEPT !.op = "get_motor", !.pc = "get_read", !.m = m])

\* variant: a test without the upper limit
RateAccepted_NoUpper(rate) == rate # 0

\* the test "rate != 0 && rate < 100" of the config-*-rate commands
RateAccepted(rate) == rate # 0 /\ rate < 100

\* motorX config-acc-rate <rate>
cmd_motor_config_acc_rate(m, str) ==
    LET acceleration_rate == simple_strtou8(str)
    IN  Dispatch(IF RateAccepted(acceleration_rate)
                 THEN [IdleShell EXCEPT !.op = "config_acc_rate", !.pc = "cfg_write",
                                        !.m = m, !.val = acceleration_rate]
                 ELSE IdleShell)

\* motorX config-brak-rate <rate>
cmd_motor_config_brak_rate(m, str) ==
    LET braking_rate == simple_strtou8(str)
    IN  Dispatch(IF RateAccepted(braking_rate)
                 THEN [IdleShell EXCEPT !.op = "config_brak_rate", !.pc = "cfg_write",
                                        !.m = m, !.val = braking_rate]
                 ELSE IdleShell)

\* motors set <speed_motor1> <dir_motor1> <speed_motor2> <dir_motor2>
cmd_motors_set(str1, dstr1, str2, dstr2) ==
    Dispatch([IdleShell EXCEPT
                !.op = "set_motors", !.phase = "start", !.pc = "sm_start",
                !.spd = <<Clamp100(simple_strtou32(str1)),
                          Clamp100(simple_strtou32(str2))>>,
                !.dirs = <<simple_strtou32(dstr1) # 0, simple_strtou32(dstr2) # 0>>])

\* --------------------------------------------- motordriver_stop_motors
EstopIdle == [pc |-> "idle", m |-> 0]

\* variant: a stop that commands motor1 only
EstopFrom_FirstOnly(m, mots) ==
    IF m = 1 /\ RatesNonZero(mots[1]) THEN [pc |-> "aa_lock", m |-> 1] ELSE EstopIdle

\* motordriver_stop_motors from its call on motor m, up to the k_mutex_lock
\* of the first motor whose rates are not zero
EstopFrom(m, mots) ==
    IF m = 1 /\ RatesNonZero(mots[1]) THEN [pc |-> "aa_lock", m |-> 1]
    ELSE IF m <= 2 /\ RatesNonZero(mots[2]) THEN [pc |-> "aa_lock", m |-> 2]
    ELSE EstopIdle

\* the emergency button callback or a sensor thread calls motordriver_stop_motors
StopMotors ==
    /\ Booted
    /\ epc.pc = "idle"
    /\ epc' = EstopFrom(1, motor)
    /\ epc' # epc
    /\ UNCHANGED <<motor, pwm_duty, dir_pin, mutex, timer, tpc, sh, budget, hist>>

EstopAdjustLocked ==
    /\ epc.pc = "aa_lock"
    /\ CanLock(mutex[epc.m], "estop")
    /\ LET r == AdjustTarget(motor[epc.m], 0)
       IN  /\ motor' = [motor EXCEPT ![epc.m] = r.mot]
           /\ timer' = [timer EXCEPT ![epc.m] =
                          IF r.start THEN ADJUST_SPEED_DELAY_MS ELSE @]
           /\ hist' = IF r.start
                      THEN HistStart(epc.m, r.mot.speed, r.mot.target_speed)
                      ELSE hist
    /\ mutex' = [mutex EXCEPT ![epc.m] = Unlock(Lock(@, "estop"), "estop")]
    /\ epc' = EstopFrom(epc.m + 1, motor)
    /\ UNCHANGED <<pwm_duty, dir_pin, tpc, sh, budget>>

\* -------------------------------------------------------------- Next
Command ==
    \/ \E m \in Motors, str \in DirArgs : cmd_motor_set_dir(m, str)
    \/ \E m \in Motors, str \in SpeedArgs : cmd_motor_set_speed(m, str)
    \/ \E m \in Motors, str \in UnsafeSpeedArgs : cmd_motor_unsafe_set_speed(m, str)
    \/ \E m \in Motors : cmd_motor_get_motor(m)
    \/ \E m \in Motors, str \in RateArgs : cmd_motor_config_acc_rate(m, str)
    \/ \E m \in Motors, str \in RateArgs : cmd_motor_config_brak_rate(m, str)
    \/ \E str1, str2 \in MotorsSpeedArgs, dstr1, dstr2 \in DirArgs :
          cmd_motors_set(str1, dstr1, str2, dstr2)

Shell ==
    \/ ShAdjustLocked
    \/ ShSetDirLock \/ ShSetDirRamp
    \/ ShSetSpeedLocked
    \/ ShGetRead \/ ShConfigWrite
    \/ ShMotorsStart \/ ShMotorsPoll \/ ShMotorsSettle

Timers ==
    \E m \in Motors :
        TimerExpire(m) \/ TimerExpireWait(m) \/ TimerLock(m) \/ TimerApply(m)

Next ==
    \/ \E m \in Motors : init_motor(m)
    \/ Command
    \/ Shell
    \/ StopMotors \/ EstopAdjustLocked
    \/ Timers

Spec == Init /\ [][Next]_vars



C3_EstopNeverWaits ==
    ~(epc.pc = "aa_lock" /\ ~CanLock(mutex[epc.m], "estop"))

\* C4: the timer expiry function is never at a k_mutex_lock whose mutex another
\* context holds.
C4_HandlerNeverWaits ==
    \A m \in Motors : ~(tpc[m] = "lock" /\ ~CanLock(mutex[m], TimerCtx(m)))

\* C5: speed and target_speed of every motor are within 0..100 in every state.
C5_SpeedRange ==
    \A m \in Motors :
        motor[m].speed \in 0..100 /\ motor[m].target_speed \in 0..100

\* the positions at which the shell thread reads or writes a field of motor m
ShellTouches(m) ==
    \/ sh.pc \in {"sd_ramp", "get_read", "cfg_write"} /\ sh.m = m
    \/ sh.pc = "sm_start"
    \/ sh.pc = "sm_poll" /\ sh.need[m]

\* C10: a context that is about to read or write a field of a motor holds that
\* motor's mutex.
C10_LockDiscipline ==
    \A m \in Motors :
        /\ ShellTouches(m) => mutex[m].owner = "shell"
        /\ tpc[m] = "apply" => mutex[m].owner = TimerCtx(m)

\* the statements of set_motors in program order; sh.phase names the one in progress
PhaseIx(ph) ==
    CASE ph = "start" -> 0 [] ph = "stop1" -> 1 [] ph = "stop2" -> 2 [] ph = "poll" -> 3
      [] ph = "settle" -> 4 [] ph = "dir1" -> 5 [] ph = "dir2" -> 6 [] ph = "go1" -> 7
      [] ph = "go2" -> 8 [] OTHER -> 9
InSetMotors == sh.op = "set_motors" /\ sh.phase # "start"

\* C8: set_motors takes a motor whose requested direction differs through: target 0
\* (from the end of its stop statement until its new target is issued), speed field
\* 0 (from the end of the monitoring loop until then), direction written by its
\* set_dir statement and not before, new target issued last.  A motor whose
\* direction is kept gets no stop call, and no step of the shell thread changes
\* its target_speed before its final adjust statement.
C8_StopBeforeReverse ==
    /\ [](InSetMotors =>
            \A m \in Motors :
               LET ix == PhaseIx(sh.phase)
               IN  /\ sh.need[m] =>
                        /\ (ix > m /\ ix <= 6 + m) => motor[m].target_speed = 0
                        /\ (ix >= 4 /\ ix <= 6 + m) => motor[m].speed = 0
                        /\ ix <= 4 + m => motor[m].direction # sh.dirs[m]
                        /\ ix > 4 + m => motor[m].direction = sh.dirs[m]
                   /\ (sh.phase \in {"stop1", "stop2"} /\ sh.m = m) => sh.need[m])
    /\ [][InSetMotors =>
            \A m \in Motors :
               /\ (~sh.need[m] /\ PhaseIx(sh.phase) < 6 + m /\ epc' = epc)
                    => motor'[m].target_speed = motor[m].target_speed
               /\ (sh' # sh /\ PhaseIx(sh.phase) = 6 + m)
                    => motor'[m].target_speed = sh.spd[m]
         ]_vars

\* C8 witness: motor1 has been braked to a stop by its timer and reversed while
\* motor2, whose direction is kept, still runs at its old target; the new targets
\* are about to be issued
C8_Witness ==
    /\ InSetMotors /\ sh.phase = "go1"
    /\ sh.need[1] /\ ~sh.need[2]
    /\ motor[1].direction = sh.dirs[1] /\ dir_pin[1] = 1
    /\ motor[1].speed = 0 /\ pwm_duty[1] = 0
    /\ motor[2].speed > 0 /\ motor[2].target_speed = motor[2].speed

\* C9: with both motors to be reversed, both target_speed fields are 0 when the
\* monitoring loop begins, no direction is written before the loop has ended, and
\* a step that writes a direction finds the speed fields of both motors 0.
C9_BothStopBeforeReverse ==
    /\ []((InSetMotors /\ sh.need[1] /\ sh.need[2]) =>
            /\ sh.phase \in {"poll", "settle"} =>
                 \A m \in Motors : motor[m].target_speed = 0
            /\ PhaseIx(sh.phase) <= 4 =>
                 \A m \in Motors : motor[m].direction # sh.dirs[m])
    /\ [][(InSetMotors /\ sh.need[1] /\ sh.need[2]) =>
            \A m \in Motors :
               (motor'[m].direction # motor[m].direction \/ dir_pin'[m] # dir_pin[m])
                  => /\ PhaseIx(sh.phase) = 4 + m
                     /\ \A k \in Motors : motor[k].speed = 0 /\ motor'[k].speed = 0
         ]_vars

\* C9 witness: both motors were running, both have been braked to a stop by their
\* timers, the loop has ended and no direction has been written yet
C9_Witness ==
    /\ InSetMotors /\ sh.phase = "settle"
    /\ sh.need[1] /\ sh.need[2]
    /\ \A m \in Motors :
         motor[m].speed = 0 /\ pwm_duty[m] = 0 /\ motor[m].direction # sh.dirs[m]

\* C11: no context owns the mutex of motor1 and the mutex of motor2 at once.
C11_NeverBothLocks ==
    \A m \in Motors : \A k \in Motors \ {m} :
        mutex[m].owner # "none" => mutex[k].owner # mutex[m].owner

\* C11 witness: set_motors reverses both motors; it has written motor1's direction
\* and released motor1's mutex, and holds motor2's mutex inside motordriver_set_dir
C11_Witness ==
    /\ InSetMotors /\ sh.phase = "dir2" /\ sh.pc = "sd_ramp"
    /\ sh.need[1] /\ sh.need[2]
    /\ motor[1].direction = sh.dirs[1]
    /\ mutex[2].owner = "shell" /\ mutex[1].owner # "shell"

\* C12: outside the expiry function the speed field is the value last applied to
\* the PWM with success (once the PWM has been written): a failed pwm_set in a
\* ramp step does not advance it.
C12_SpeedIsApplied ==
    \A m \in Motors :
        (tpc[m] # "apply" /\ pwm_duty[m] # -1)
            => pwm_duty[m] = DutyCycleNs(motor[m].speed)

\* C14: the speed field of a motor changes only in a step in which set_speed has
\* written the PWM with success, and then to the value written.
C14_OnlySetSpeedWrites ==
    [][\A m \in Motors :
         motor'[m].speed # motor[m].speed
            => /\ budget'.fails = budget.fails
               /\ pwm_duty'[m] = DutyCycleNs(motor'[m].speed)
               /\ (tpc[m] = "apply" \/ (sh.pc \in {"ss_lock", "sd_ramp"} /\ sh.m = m))
      ]_vars

\* C15: with no command, stop call or expiry function in progress, a motor whose
\* timer is not armed has speed == target_speed.
C15_IdleOrConverging ==
    (Booted /\ sh.pc = "idle" /\ epc.pc = "idle") =>
        \A m \in Motors :
            (tpc[m] = "idle" /\ timer[m] = 0)
                => motor[m].speed = motor[m].target_speed

\* the steps in which a run of the expiry function of motor m ends: after its
\* set_speed, or at once when it has found speed == target_speed
HandlerDone(m) ==
    \/ tpc[m] \in {"apply", "lock"} /\ tpc'[m] = "idle"
    \/ tpc[m] = "idle" /\ tpc'[m] = "idle" /\ timer[m] # 0 /\ timer'[m] = 0

\* C20: when a run of the expiry function ends, the timer is armed if and only if
\* speed != target_speed, with acceleration_rate_delay below the target and
\* braking_rate_delay above it; a run that found speed == target_speed has
\* changed nothing.
C20_RearmIffNotAtTarget ==
    [][\A m \in Motors :
         HandlerDone(m) =>
            /\ timer'[m] # 0 <=> motor'[m].speed # motor'[m].target_speed
            /\ motor'[m].speed < motor'[m].target_speed
                 => timer'[m] = motor'[m].acceleration_rate_delay
            /\ motor'[m].speed > motor'[m].target_speed
                 => timer'[m] = motor'[m].braking_rate_delay
            /\ tpc[m] # "apply" => (motor' = motor /\ pwm_duty' = pwm_duty)
      ]_vars

\* C28: when init_motor has run on a motor, the direction GPIO has been written
\* with the motor's direction (false, level 0) and the PWM with a duty cycle of 0,
\* and speed == 0, target_speed == 0 and the timer is stopped.
C28_InitWritesHardware ==
    [][\A m \in Motors :
         (sh.pc = "init" /\ sh.m = m /\ sh' # sh)
            => /\ dir_pin'[m] = 0 /\ pwm_duty'[m] = 0
               /\ ~motor'[m].direction
               /\ motor'[m].speed = 0 /\ motor'[m].target_speed = 0
               /\ timer'[m] = 0
      ]_vars

\* ---------------------------------------------- the non-blocking ramp alone
\* Motor 1 rests at any speed with any accepted rates (speed == target_speed,
\* timer stopped: the state a finished ramp leaves); one set-speed command
\* follows and the timer runs.  The history of the ramp is recorded.
StartSpeeds == {0, 1, 50, 93, 100}
RampRates == {1, 7, 10, 99}
RampSpeedArgs == {<<0>>, <<1>>, <<3, 3>>, <<1, 0, 0>>, <<1, 5, 0>>, <<2, 5, 5>>}

InitRamp ==
    /\ \E s0 \in StartSpeeds, acc \in RampRates, brak \in RampRates :
         motor = [m \in Motors |->
                    IF m = 1 THEN [InitMotorRecord EXCEPT
                                     !.speed = s0, !.target_speed = s0,
                                     !.acceleration_rate = acc, !.braking_rate = brak]
                    ELSE InitMotorRecord]
    /\ pwm_duty = [m \in Motors |-> DutyCycleNs(motor[m].speed)]
    /\ dir_pin = [m \in Motors |-> -1]
    /\ mutex = [m \in Motors |-> Free]
    /\ timer = [m \in Motors |-> 0]
    /\ tpc = [m \in Motors |-> "idle"]
    /\ sh = IdleShell
    /\ epc = EstopIdle
    /\ budget = [cmds |-> 1, fails |-> MaxPwmFail]
    /\ hist = [NoHist EXCEPT !.on = TRUE]

NextRamp ==
    \/ \E m \in Motors, str \in RampSpeedArgs : cmd_motor_set_speed(m, str)
    \/ ShAdjustLocked
    \/ \E m \in Motors : TimerExpire(m) \/ TimerApply(m)

SpecRamp == InitRamp /\ [][NextRamp]_vars

Abs(x) == IF x < 0 THEN -x ELSE x
Min(a, b) == IF a < b THEN a ELSE b
Max(a, b) == IF a > b THEN a ELSE b
CeilDiv(a, b) == (a + b - 1) \div b

\* the rate that governs the recorded ramp of motor m, and its length
RampRate(m) == IF hist.from[m] < hist.to[m] THEN motor[m].acceleration_rate
               ELSE motor[m].braking_rate
RampDist(m) == Abs(hist.to[m] - hist.from[m])

\* C6: a timer tick moves the speed field by at most acceleration_rate upwards or
\* braking_rate downwards, lands exactly on target_speed when target_speed is within
\* that rate, and the set_speed that follows does not move the field again.
C6_StepBound ==
    [][\A m \in Motors :
         /\ (tpc[m] # "apply" /\ tpc'[m] = "apply") =>
              /\ motor'[m].speed # motor[m].speed
              /\ motor'[m].speed > motor[m].speed =>
                   /\ motor'[m].speed - motor[m].speed <= motor[m].acceleration_rate
                   /\ motor'[m].speed <= motor[m].target_speed
                   /\ motor[m].target_speed - motor[m].speed <= motor[m].acceleration_rate
                        => motor'[m].speed = motor[m].target_speed
              /\ motor'[m].speed < motor[m].speed =>
                   /\ motor[m].speed - motor'[m].speed <= motor[m].braking_rate
                   /\ motor'[m].speed >= motor[m].target_speed
                   /\ motor[m].speed - motor[m].target_speed <= motor[m].braking_rate
                        => motor'[m].speed = motor[m].target_speed
         /\ tpc[m] = "apply" => motor'[m].speed = motor[m].speed
      ]_vars

\* C6 witness: a tick has just taken a last step shorter than the rate
C6_Witness ==
    /\ hist.open[1] /\ tpc[1] = "apply"
    /\ motor[1].speed = motor[1].target_speed
    /\ RampDist(1) % RampRate(1) # 0
    /\ hist.ticks[1] >= 1

\* C7: once the adjust call has started the timer and no further command arrives,
\* after k ticks the speed has covered min(k * rate, |start - target|) of the way,
\* so speed == target_speed after at most ceil(|start - target| / rate) ticks; the
\* timer is armed exactly until then (until the first tick when the speed was
\* already at the target) and never again.
C7_Convergence ==
    \A m \in Motors :
        hist.open[m] =>
            /\ hist.to[m] = motor[m].target_speed
            /\ hist.ticks[m] <= Max(1, CeilDiv(RampDist(m), RampRate(m)))
            /\ tpc[m] = "idle" =>
                 /\ Abs(motor[m].speed - hist.from[m])
                      = Min(hist.ticks[m] * RampRate(m), RampDist(m))
                 /\ Abs(motor[m].speed - hist.to[m])
                      = RampDist(m) - Abs(motor[m].speed - hist.from[m])
                 /\ timer[m] = 0 <=>
                      (motor[m].speed = motor[m].target_speed /\ hist.ticks[m] >= 1)

\* C7 witness: a ramp whose length the rate does not divide has converged in
\* exactly ceil(|start - target| / rate) > 1 ticks and the timer is stopped
C7_Witness ==
    /\ hist.open[1] /\ tpc[1] = "idle" /\ timer[1] = 0
    /\ motor[1].speed = motor[1].target_speed
    /\ RampDist(1) % RampRate(1) # 0
    /\ hist.ticks[1] = CeilDiv(RampDist(1), RampRate(1))
    /\ hist.ticks[1] > 1


\* ------------------------------------------- speed commands with any argument
\* Motor 1 is at rest or converging (timer armed by the last tick), motor 2 at
\* rest; set-speed and Zset-speed commands with arguments inside and outside
\* 0..100 and 0..255 follow, while the timers run and motordriver_stop_motors
\* is called any number of times.
MaxArgCmds == 1
ArgSpeeds == {0, 50, 100}
WideArgs == {<<0>>, <<5, 0>>, <<1, 0, 0>>, <<1, 5, 0>>, <<2, 5, 5>>, <<3, 0, 0>>}

InitArgs ==
    /\ \E s0 \in ArgSpeeds, t0 \in ArgSpeeds :
         /\ motor = [m \in Motors |->
                       IF m = 1 THEN [InitMotorRecord EXCEPT
                                        !.speed = s0, !.target_speed = t0]
                       ELSE InitMotorRecord]
         /\ timer = [m \in Motors |-> TimerRearm(motor[m])]
    /\ pwm_duty = [m \in Motors |-> DutyCycleNs(motor[m].speed)]
    /\ dir_pin = [m \in Motors |-> -1]
    /\ mutex = [m \in Motors |-> Free]
    /\ tpc = [m \in Motors |-> "idle"]
    /\ sh = IdleShell
    /\ epc = EstopIdle
    /\ budget = [cmds |-> MaxArgCmds, fails |-> MaxPwmFail]
    /\ hist = NoHist

NextArgs ==
    \/ \E m \in Motors, str \in WideArgs : cmd_motor_set_speed(m, str)
    \/ \E m \in Motors, str \in WideArgs : cmd_motor_unsafe_set_speed(m, str)
    \/ ShAdjustLocked \/ ShSetSpeedLocked
    \/ StopMotors \/ EstopAdjustLocked
    \/ \E m \in Motors : TimerExpire(m) \/ TimerApply(m)

SpecArgs == InitArgs /\ [][NextArgs]_vars

\* the step in which set_speed, called by Zset-speed, runs
ZsetSpeedStep == sh.pc = "ss_lock" /\ sh' # sh

\* C13: a set_speed whose pwm_set fails leaves the speed field (and the duty
\* cycle) as they were before the call; one whose pwm_set succeeds sets the speed
\* field to its argument clamped to 100.
C13_SetSpeedOutcome ==
    [][ZsetSpeedStep =>
         IF budget'.fails < budget.fails
         THEN motor'[sh.m].speed = motor[sh.m].speed /\ pwm_duty' = pwm_duty
         ELSE /\ motor'[sh.m].speed = Min(sh.val, 100)
              /\ pwm_duty'[sh.m] = (PwmPeriodNs * Min(sh.val, 100)) \div 100
      ]_vars

\* C13 witness: the one command was a Zset-speed whose pwm_set failed; motor1 is
\* still at speed 50 with the duty cycle of 50%
C13_Witness ==
    /\ budget.fails < MaxPwmFail /\ budget.cmds < MaxArgCmds
    /\ sh = IdleShell /\ tpc[1] = "idle" /\ timer[1] = 0
    /\ motor[1].speed = 50 /\ motor[1].target_speed = 50 /\ pwm_duty[1] = 25000
    /\ motor[2] = InitMotorRecord /\ pwm_duty[2] = 0

\* the steps in which the body of the adjust call runs, for the shell thread and
\* for the caller of motordriver_stop_motors
ShAdjustStep == sh.pc = "aa_lock" /\ sh' # sh
EstopAdjustStep == epc.pc = "aa_lock" /\ epc' # epc

\* C16: an adjust call whose (clamped) target is the target_speed the motor
\* already has changes no field of any motor and leaves every timer as it is:
\* armed timers stay armed with their pending expiry, stopped ones stay stopped.
\* For motordriver_stop_motors that is every call on a motor with target_speed 0.
C16_SameTargetNoOp ==
    [][/\ (ShAdjustStep /\ UMin(sh.val, 100) = motor[sh.m].target_speed)
            => (motor' = motor /\ timer' = timer /\ pwm_duty' = pwm_duty)
       /\ (EstopAdjustStep /\ motor[epc.m].target_speed = 0)
            => (motor' = motor /\ timer' = timer /\ pwm_duty' = pwm_duty)
      ]_vars

\* C16 witness: motor1 was braking from 100 to 0 with its timer re-armed by a
\* tick; motordriver_stop_motors has run its adjust call on motor1, and nothing
\* has changed
C16_Witness ==
    /\ budget.cmds = MaxArgCmds /\ sh = IdleShell
    /\ epc = [pc |-> "aa_lock", m |-> 2]
    /\ motor[1].speed = 100 /\ motor[1].target_speed = 0
    /\ timer[1] = motor[1].braking_rate_delay /\ tpc[1] = "idle"

\* C17: an adjust call of the shell thread with a new target on a motor whose
\* timer is armed changes target_speed only: the armed timer keeps its pending
\* expiry.
C17_RetargetKeepsTimer ==
    [][(ShAdjustStep /\ timer[sh.m] # 0
          /\ UMin(sh.val, 100) # motor[sh.m].target_speed)
         => /\ motor' = [motor EXCEPT ![sh.m].target_speed = UMin(sh.val, 100)]
            /\ timer' = timer
      ]_vars


\* the number a string of decimal digits denotes
RECURSIVE DecimalValue(_)
DecimalValue(str) ==
    IF str = <<>> THEN 0
    ELSE 10 * DecimalValue(SubSeq(str, 1, Len(str) - 1)) + str[Len(str)]

\* C19: `motorX set-speed n` leaves target_speed == min(n, 100) and `motorX
\* Zset-speed n` (its pwm_set succeeding) leaves speed == min(n, 100), for the
\* number n typed.
C19_ShellArgumentClamped ==
    [][/\ (ShAdjustStep /\ sh.op = "set_speed")
            => motor'[sh.m].target_speed = Min(DecimalValue(sh.arg), 100)
       /\ (ZsetSpeedStep /\ budget'.fails = budget.fails)
            => motor'[sh.m].speed = Min(DecimalValue(sh.arg), 100)
      ]_vars

\* x lies between a and b inclusive, as uint32_t values
ULeq(a, b) == ~ULess(b, a)
UBetween(a, x, b) == (ULeq(a, x) /\ ULeq(x, b)) \/ (ULeq(b, x) /\ ULeq(x, a))

\* C34: a run of the expiry function that finds speed != target_speed moves the
\* speed field to a different value between the old one and target_speed
\* inclusive, its set_speed leaves the field between that value and target_speed,
\* and target_speed is the same before and after; this also when a command or a
\* stop call has changed target_speed since the last tick.
C34_TickTowardsTarget ==
    [][\A m \in Motors :
         /\ (tpc[m] # "apply" /\ tpc'[m] = "apply") =>
              /\ motor'[m].speed # motor[m].speed
              /\ UBetween(motor[m].speed, motor'[m].speed, motor[m].target_speed)
              /\ motor'[m].target_speed = motor[m].target_speed
         /\ (tpc[m] = "apply" /\ tpc'[m] # "apply") =>
              /\ UBetween(motor[m].speed, motor'[m].speed, motor[m].target_speed)
              /\ motor'[m].target_speed = motor[m].target_speed
      ]_vars

\* C34 witness: motor1 was at speed 40 in mid-ramp when `set-speed 300` made its
\* target 44; the next tick has moved the speed field to 44 and is about to apply it
C34_Witness ==
    /\ tpc[1] = "apply" /\ budget.cmds < MaxArgCmds
    /\ motor[1].speed = 44 /\ motor[1].target_speed = 44
    /\ pwm_duty[1] = DutyCycleNs(40)

\* the same, with the scheduling: a thread that can go on does, and an armed
\* timer expires
SpecArgsFair ==
    /\ SpecArgs
    /\ WF_vars(ShAdjustLocked) /\ WF_vars(ShSetSpeedLocked)
    /\ WF_vars(EstopAdjustLocked)
    /\ \A m \in Motors : WF_vars(TimerExpire(m)) /\ WF_vars(TimerApply(m))

\* C30: once motordriver_stop_motors has been called, with no command in progress
\* and none issued afterwards, both motors reach speed == 0.
C30_StopReachesZero ==
    (epc = [pc |-> "aa_lock", m |-> 1] /\ sh.pc = "idle" /\ budget.cmds = 0)
        ~> (\A m \in Motors : motor[m].speed = 0)

\* ------------------------------------------- the adjust call with any target
\* A thread is about to run motordriver_adjust_motor_speed_non_blocking on motor 1
\* (at rest or converging) with a target from the whole uint32_t range; the timers
\* run.  The target 100 itself is among the arguments of SpecArgs.
TargetInputs ==
    {0, 1, 99, 101, 150, 255, 256, 65536, 2147483647, -2147483647 - 1, -2, -1}

InitAdjust ==
    /\ \E s0 \in ArgSpeeds, t0 \in ArgSpeeds :
         /\ motor = [m \in Motors |->
                       IF m = 1 THEN [InitMotorRecord EXCEPT
                                        !.speed = s0, !.target_speed = t0]
                       ELSE InitMotorRecord]
         /\ timer = [m \in Motors |-> TimerRearm(motor[m])]
    /\ pwm_duty = [m \in Motors |-> DutyCycleNs(motor[m].speed)]
    /\ dir_pin = [m \in Motors |-> -1]
    /\ mutex = [m \in Motors |-> Free]
    /\ tpc = [m \in Motors |-> "idle"]
    /\ \E t \in TargetInputs :
         sh = CallAdjust([IdleShell EXCEPT !.op = "adjust"], "none", 1, t, motor)
    /\ epc = EstopIdle
    /\ budget = [cmds |-> 0, fails |-> MaxPwmFail]
    /\ hist = NoHist

NextAdjust ==
    \/ ShAdjustLocked
    \/ \E m \in Motors : TimerExpire(m) \/ TimerApply(m)

SpecAdjust == InitAdjust /\ [][NextAdjust]_vars

\* C18: after the adjust call with target t, target_speed is t when t is at most
\* 100 and 100 for every larger 32-bit unsigned t.
C18_TargetClamped ==
    [][ShAdjustStep =>
         motor'[sh.m].target_speed = (IF sh.val \in 0..100 THEN sh.val ELSE 100)
      ]_vars

\* C18 witness: the call with a target above 100 has returned on the motor at
\* rest: target_speed is 100 and the timer has been started
C18_Witness ==
    /\ sh = IdleShell
    /\ motor[1].speed = 0 /\ motor[1].target_speed = 100
    /\ timer[1] = ADJUST_SPEED_DELAY_MS /\ tpc[1] = "idle"


\* ------------------------------------------- the ramp functions with a zero rate
\* motor_t is a public record: motor 1 is given rates of which at least one is 0
\* (the config commands refuse to store 0, the ramp functions test for it), at rest
\* or converging.  A thread calls motordriver_adjust_motor_speed_blocking(&motor1,
\* target) as init_motor does, without holding the mutex; one set-speed or set-dir
\* command follows, and the timers run.
MaxZeroCmds == 1
ZeroSpeeds == {0, 50}
ZeroRates == {<<0, 0>>, <<0, 10>>, <<10, 0>>}
RampTargets == {0, 50, 150}
ZeroSpeedArgs == {<<0>>, <<5, 0>>}

\* a call of motordriver_adjust_motor_speed_blocking(m, target) by a thread that
\* does not hold the mutex of m
CallBlocking(s, m, target) == [s EXCEPT !.pc = "br_loop", !.m = m, !.val = target]

\* the blocking ramp called directly: the test of acceleration_rate and of the loop
\* condition, then either the return or one iteration of the loop, whose set_speed
\* takes and releases the mutex
ShBlockingRamp ==
    /\ sh.pc = "br_loop"
    /\ IF BlockingRampDone(motor[sh.m], sh.val)
       THEN /\ sh' = ShReturn(sh, motor)
            /\ UNCHANGED <<motor, pwm_duty, mutex, budget>>
       ELSE /\ CanLock(mutex[sh.m], "shell")
            /\ \E ok \in PwmOutcomes :
                 LET r == BlockingStep(motor[sh.m], pwm_duty[sh.m], sh.val, ok)
                 IN  /\ motor' = [motor EXCEPT ![sh.m] = r.mot]
                     /\ pwm_duty' = [pwm_duty EXCEPT ![sh.m] = r.duty]
                     /\ budget' = [budget EXCEPT !.fails = SpendFail(ok)]
            /\ mutex' = [mutex EXCEPT ![sh.m] = Unlock(Lock(@, "shell"), "shell")]
            /\ UNCHANGED sh
    /\ UNCHANGED <<dir_pin, timer, tpc, epc, hist>>

InitZero ==
    /\ \E s0 \in ZeroSpeeds, t0 \in ZeroSpeeds, rates \in ZeroRates :
         /\ motor = [m \in Motors |->
                       IF m = 1 THEN [InitMotorRecord EXCEPT
                                        !.speed = s0, !.target_speed = t0,
                                        !.acceleration_rate = rates[1],
                                        !.braking_rate = rates[2]]
                       ELSE InitMotorRecord]
         /\ timer = [m \in Motors |-> TimerRearm(motor[m])]
    /\ pwm_duty = [m \in Motors |-> DutyCycleNs(motor[m].speed)]
    /\ dir_pin = [m \in Motors |-> -1]
    /\ mutex = [m \in Motors |-> Free]
    /\ tpc = [m \in Motors |-> "idle"]
    /\ \E t \in RampTargets :
         sh = CallBlocking([IdleShell EXCEPT !.op = "ramp"], 1, t)
    /\ epc = EstopIdle
    /\ budget = [cmds |-> MaxZeroCmds, fails |-> MaxPwmFail]
    /\ hist = NoHist

NextZero ==
    \/ ShBlockingRamp
    \/ \E m \in Motors, str \in ZeroSpeedArgs : cmd_motor_set_speed(m, str)
    \/ \E m \in Motors, str \in DirArgs : cmd_motor_set_dir(m, str)
    \/ ShAdjustLocked
    \/ ShSetDirLock \/ ShSetDirRamp
    \/ Timers

SpecZero == InitZero /\ [][NextZero]_vars

\* the steps of the timer contexts: an expiry function moves, or a timer expires
\* (no other context ever stops a timer)
TimerStep ==
    \E m \in Motors : tpc'[m] # tpc[m] \/ (timer[m] # 0 /\ timer'[m] = 0)

\* the step in which the shell thread dispatches a command
DispatchStep == sh.pc = "idle" /\ budget'.cmds < budget.cmds

\* C21: with acceleration_rate == 0 a step of the blocking ramp (called directly or
\* by motordriver_set_dir) is its return, and leaves speed, target_speed, the duty
\* cycle and every timer as they were; an adjust call never gets as far as its
\* k_mutex_lock, and the command that made it leaves every motor and timer as
\* they were.
C21_ZeroRateRejected ==
    /\ [][(sh.pc \in {"br_loop", "sd_ramp"} /\ ~TimerStep
             /\ motor[sh.m].acceleration_rate = 0)
            => /\ sh'.pc \notin {"br_loop", "sd_ramp"}
               /\ motor'[sh.m].speed = motor[sh.m].speed
               /\ motor'[sh.m].target_speed = motor[sh.m].target_speed
               /\ timer' = timer /\ pwm_duty' = pwm_duty
         ]_vars
    /\ [](sh.pc = "aa_lock" => motor[sh.m].acceleration_rate # 0)
    /\ [][DispatchStep => (motor' = motor /\ timer' = timer /\ pwm_duty' = pwm_duty)]_vars

\* C21 witness: the blocking ramp has returned on motor1, which has
\* acceleration_rate 0 and was braking from 50 to 0 under its timer: speed 50,
\* target_speed 0 and the armed timer are as they were
C21_Witness ==
    /\ sh = IdleShell /\ budget.cmds = MaxZeroCmds
    /\ motor[1].acceleration_rate = 0 /\ motor[1].braking_rate # 0
    /\ motor[1].speed = 50 /\ motor[1].target_speed = 0
    /\ timer[1] = motor[1].braking_rate_delay /\ tpc[1] = "idle"
    /\ pwm_duty[1] = DutyCycleNs(50)

\* the same, with the scheduling of the calling thread: a thread inside the
\* blocking ramp that can take a step that changes something eventually takes one
SpecZeroFair == SpecZero /\ WF_vars(ShBlockingRamp) /\ WF_vars(ShSetDirRamp)

\* C22: a blocking ramp called with braking_rate == 0, acceleration_rate > 0 and
\* speed above the target returns, with the speed as it was.
C22_ZeroBrakingRateReturns ==
    \A v \in ZeroSpeeds :
        (/\ sh.pc = "br_loop"
         /\ motor[sh.m].braking_rate = 0 /\ motor[sh.m].acceleration_rate > 0
         /\ motor[sh.m].speed = v /\ UGreater(v, Clamp100(sh.val)))
            ~> (sh.pc # "br_loop" /\ motor[1].speed = v)

\* --------------------------------------------------- the blocking ramp alone
\* Motor 1 rests at any speed with any accepted rates (timer stopped); a thread
\* calls motordriver_adjust_motor_speed_blocking(&motor1, target) as init_motor
\* does, and one set-dir command, whose ramp runs with the mutex held, follows.
BlockSpeeds == {0, 5, 20, 50, 100}
BlockRates == {1, 7, 10, 30, 99}
BlockTargets == {0, 20, 33, 100}

InitBlocking ==
    /\ \E s0 \in BlockSpeeds, acc \in BlockRates, brak \in BlockRates :
         motor = [m \in Motors |->
                    IF m = 1 THEN [InitMotorRecord EXCEPT
                                     !.speed = s0, !.target_speed = s0,
                                     !.acceleration_rate = acc, !.braking_rate = brak]
                    ELSE InitMotorRecord]
    /\ pwm_duty = [m \in Motors |-> DutyCycleNs(motor[m].speed)]
    /\ dir_pin = [m \in Motors |-> -1]
    /\ mutex = [m \in Motors |-> Free]
    /\ timer = [m \in Motors |-> 0]
    /\ tpc = [m \in Motors |-> "idle"]
    /\ \E t \in BlockTargets :
         sh = CallBlocking([IdleShell EXCEPT !.op = "ramp"], 1, t)
    /\ epc = EstopIdle
    /\ budget = [cmds |-> 1, fails |-> MaxPwmFail]
    /\ hist = NoHist

NextBlocking ==
    \/ ShBlockingRamp
    \/ \E m \in Motors, str \in DirArgs : cmd_motor_set_dir(m, str)
    \/ ShSetDirLock \/ ShSetDirRamp

SpecBlocking == InitBlocking /\ [][NextBlocking]_vars

\* C23: an iteration of the loop of the blocking ramp moves the speed field by
\* min(acceleration_rate, target - speed) upwards when speed is below the target
\* and by min(braking_rate, speed - target) downwards when it is above.
C23_BlockingStepExact ==
    [][(sh.pc \in {"br_loop", "sd_ramp"} /\ motor[sh.m].speed # Min(sh.val, 100))
         => LET speed == motor[sh.m].speed
                target == Min(sh.val, 100)
            IN  motor'[sh.m].speed =
                  IF speed < target
                  THEN speed + Min(motor[sh.m].acceleration_rate, target - speed)
                  ELSE speed - Min(motor[sh.m].braking_rate, speed - target)
      ]_vars

\* the same, with the scheduling of the calling thread
SpecBlockingFair ==
    SpecBlocking /\ WF_vars(ShBlockingRamp) /\ WF_vars(ShSetDirRamp)

\* C24: a blocking ramp called with a target in 0..100, all of whose PWM writes
\* succeed, returns with speed == target.
C24_BlockingRampTerminates ==
    \A t \in BlockTargets :
        (sh.pc = "br_loop" /\ sh.val = t /\ [](budget.fails = MaxPwmFail))
            => <>(sh.pc # "br_loop" /\ motor[1].speed = t)

\* ------------------------------------------------------ set-dir commands
\* Motor 1 runs in either direction, at rest or converging (timer armed by the
\* last tick), motor 2 is at rest; set-dir commands follow while the timers run
\* and motordriver_stop_motors is called any number of times.
MaxDirCmds == 1

InitDir ==
    /\ \E s0 \in ArgSpeeds, t0 \in ArgSpeeds, d0 \in BOOLEAN :
         /\ motor = [m \in Motors |->
                       IF m = 1 THEN [InitMotorRecord EXCEPT
                                        !.speed = s0, !.target_speed = t0,
                                        !.direction = d0]
                       ELSE InitMotorRecord]
         /\ timer = [m \in Motors |-> TimerRearm(motor[m])]
    /\ pwm_duty = [m \in Motors |-> DutyCycleNs(motor[m].speed)]
    /\ dir_pin = [m \in Motors |-> IF motor[m].direction THEN 1 ELSE -1]
    /\ mutex = [m \in Motors |-> Free]
    /\ tpc = [m \in Motors |-> "idle"]
    /\ sh = IdleShell
    /\ epc = EstopIdle
    /\ budget = [cmds |-> MaxDirCmds, fails |-> MaxPwmFail]
    /\ hist = NoHist

NextDir ==
    \/ \E m \in Motors, str \in DirArgs : cmd_motor_set_dir(m, str)
    \/ ShSetDirLock \/ ShSetDirRamp
    \/ StopMotors \/ EstopAdjustLocked
    \/ Timers

SpecDir == InitDir /\ [][NextDir]_vars

\* the step in which motordriver_set_dir gets the mutex and tests the direction
SetDirStep == sh.pc = "sd_lock" /\ sh' # sh

\* C25: motordriver_set_dir(motor, d) on a motor whose direction is d returns in
\* the step in which it got the mutex: no field of any motor, no timer, no duty
\* cycle and no direction GPIO has changed, and the mutex is free again.
C25_SameDirectionNoOp ==
    [][(SetDirStep /\ motor[sh.m].direction = sh.dir)
         => /\ sh' = IdleShell
            /\ motor' = motor /\ timer' = timer
            /\ pwm_duty' = pwm_duty /\ dir_pin' = dir_pin
            /\ mutex'[sh.m] = Free
      ]_vars

\* C29: a step that writes the direction GPIO of a motor finds the duty cycle last
\* applied to that motor's PWM 0.
C29_FlipAtZeroDuty ==
    [][\A m \in Motors : dir_pin'[m] # dir_pin[m] => pwm_duty[m] = 0]_vars

\* C25 witness: the one command was a set-dir with the direction its motor already
\* had (no GPIO has been written); motor1 still runs forwards at 100 towards
\* target 0 with its timer armed
C25_Witness ==
    /\ sh = IdleShell /\ budget.cmds < MaxDirCmds
    /\ motor[1].direction /\ dir_pin = <<1, -1>>
    /\ motor[1].speed = 100 /\ motor[1].target_speed = 0
    /\ pwm_duty[1] = DutyCycleNs(100)
    /\ timer[1] = motor[1].braking_rate_delay /\ tpc[1] = "idle"
    /\ motor[2] = InitMotorRecord /\ mutex = [m \in Motors |-> Free]

\* ----------------------------------------------------------- set_motors alone
\* Motor 1 runs in either direction, at rest or converging, motor 2 is at rest in
\* either direction; a thread calls set_motors with any speeds and directions.
\* The timers run; no command and no stop call is made meanwhile.
MotorsSpeeds == {0, 50}
MotorsTargets == {0, 20, 150}

InitMotors ==
    /\ \E s1 \in MotorsSpeeds, t1 \in MotorsSpeeds, s2 \in MotorsSpeeds,
          d1 \in BOOLEAN, d2 \in BOOLEAN :
         /\ motor = [m \in Motors |->
                       IF m = 1 THEN [InitMotorRecord EXCEPT
                                        !.speed = s1, !.target_speed = t1,
                                        !.direction = d1]
                       ELSE [InitMotorRecord EXCEPT
                               !.speed = s2, !.target_speed = s2, !.direction = d2]]
         /\ timer = [m \in Motors |-> TimerRearm(motor[m])]
    /\ pwm_duty = [m \in Motors |-> DutyCycleNs(motor[m].speed)]
    /\ dir_pin = [m \in Motors |-> IF motor[m].direction THEN 1 ELSE -1]
    /\ mutex = [m \in Motors |-> Free]
    /\ tpc = [m \in Motors |-> "idle"]
    /\ \E speed1 \in MotorsTargets, speed2 \in MotorsTargets,
          dir1 \in BOOLEAN, dir2 \in BOOLEAN :
         sh = [IdleShell EXCEPT !.op = "set_motors", !.phase = "start",
                                !.pc = "sm_start", !.spd = <<speed1, speed2>>,
                                !.dirs = <<dir1, dir2>>]
    /\ epc = EstopIdle
    /\ budget = [cmds |-> 0, fails |-> MaxPwmFail]
    /\ hist = NoHist

NextMotors ==
    \/ ShMotorsStart \/ ShMotorsPoll \/ ShMotorsSettle
    \/ ShAdjustLocked
    \/ ShSetDirLock \/ ShSetDirRamp
    \/ Timers

SpecMotors == InitMotors /\ [][NextMotors]_vars

\* the step in which set_motors returns
SetMotorsReturn == sh.op = "set_motors" /\ sh' = IdleShell

\* C26: when set_motors(m1, m2, speed1, speed2, dir1, dir2) returns, the direction
\* of m1 is dir1 and that of m2 is dir2, and the target_speed of m1 is
\* min(speed1, 100) and that of m2 min(speed2, 100).
C26_SetMotorsPostcondition ==
    [][SetMotorsReturn =>
         \A m \in Motors :
            /\ motor'[m].direction = sh.dirs[m]
            /\ motor'[m].target_speed = Min(sh.spd[m], 100)
      ]_vars

\* C26 witness: set_motors has returned; motor1 was reversed and has target 100
\* (speed1 was 150), motor2 kept its direction and has target 20
C26_Witness ==
    /\ sh = IdleShell
    /\ motor[1].direction /\ dir_pin[1] = 1 /\ motor[1].target_speed = 100
    /\ pwm_duty[1] = 0
    /\ ~motor[2].direction /\ dir_pin[2] = -1 /\ motor[2].target_speed = 20

\* ------------------------------------------- the set_speed call with any percent
\* A thread is about to run set_speed on motor 1 (at rest or converging) with a
\* speed_percent from the whole uint32_t range; the timers run.
PercentInputs ==
    {0, 1, 33, 99, 100, 101, 255, 256, 65536, 2147483647, -2147483647 - 1, -1}

InitSetSpeed ==
    /\ \E s0 \in ArgSpeeds, t0 \in ArgSpeeds :
         /\ motor = [m \in Motors |->
                       IF m = 1 THEN [InitMotorRecord EXCEPT
                                        !.speed = s0, !.target_speed = t0]
                       ELSE InitMotorRecord]
         /\ timer = [m \in Motors |-> TimerRearm(motor[m])]
    /\ pwm_duty = [m \in Motors |-> DutyCycleNs(motor[m].speed)]
    /\ dir_pin = [m \in Motors |-> -1]
    /\ mutex = [m \in Motors |-> Free]
    /\ tpc = [m \in Motors |-> "idle"]
    /\ \E p \in PercentInputs :
         sh = [IdleShell EXCEPT !.op = "set_speed_call", !.pc = "ss_lock", !.m = 1,
                                !.val = p]
    /\ epc = EstopIdle
    /\ budget = [cmds |-> 0, fails |-> MaxPwmFail]
    /\ hist = NoHist

NextSetSpeed ==
    \/ ShSetSpeedLocked
    \/ \E m \in Motors : TimerExpire(m) \/ TimerApply(m)

SpecSetSpeed == InitSetSpeed /\ [][NextSetSpeed]_vars

\* C27: set_speed(motor, p) whose pwm_set succeeds leaves the duty cycle
\* period * min(p, 100) / 100 on the PWM and speed == min(p, 100), for every
\* 32-bit unsigned p, and changes no other field of the motor, nothing of the
\* other motor, no timer and no direction GPIO.
C27_SetSpeedApplies ==
    [][(ZsetSpeedStep /\ budget'.fails = budget.fails) =>
         LET percent == IF sh.val \in 0..100 THEN sh.val ELSE 100
         IN  /\ pwm_duty' = [pwm_duty EXCEPT ![sh.m] = (PwmPeriodNs * percent) \div 100]
             /\ motor' = [motor EXCEPT ![sh.m].speed = percent]
             /\ timer' = timer /\ dir_pin' = dir_pin
      ]_vars

\* C27 witness: set_speed has been called with a percent above 100 on motor1,
\* which was braking from 50 to 0 with its timer armed: the duty cycle is the whole
\* period, speed is 100, and target_speed and the timer are as they were
C27_Witness ==
    /\ sh = IdleShell /\ budget.fails = MaxPwmFail
    /\ motor[1].speed = 100 /\ pwm_duty[1] = PwmPeriodNs
    /\ motor[1].target_speed = 0
    /\ timer[1] = motor[1].braking_rate_delay /\ tpc[1] = "idle"

\* ------------------------------------- set_motors with an emergency stop
\* As above, with motor 1 to be reversed and motor 2, which has a target that is
\* not 0, keeping its direction; motordriver_stop_motors is called, and runs, while
\* set_motors is in its monitoring loop or in the settle interval that follows.
\* Before its last statement set_motors does not write motor 2's target (C8), so
\* motor 2 has target_speed 0 there exactly when the stop call has run.
InitMotorsStop ==
    /\ InitMotors
    /\ motor[2].target_speed # 0
    /\ sh.dirs[1] # motor[1].direction /\ sh.dirs[2] = motor[2].direction

\* the phases of set_motors in which it waits: the loop and the settle interval
InWaitPhase == sh.op = "set_motors" /\ sh.phase \in {"poll", "settle"}

StopMotorsInWait == InWaitPhase /\ StopMotors
EstopAdjustInWait == InWaitPhase /\ EstopAdjustLocked

NextMotorsStop ==
    \/ NextMotors
    \/ StopMotorsInWait \/ EstopAdjustInWait

SpecMotorsStop == InitMotorsStop /\ [][NextMotorsStop]_vars

\* C31: when motordriver_stop_motors has run while set_motors waited, the
\* statements of set_motors that follow leave both target_speed fields 0, up to and
\* including its return.
C31_StopNotUndone ==
    [][(sh.op = "set_motors" /\ sh.phase \in {"go1", "go2"} /\ sh' # sh
          /\ epc.pc = "idle" /\ motor[2].target_speed = 0)
         => motor'[sh.m].target_speed = 0
      ]_vars

\* ------------------------------------------- speed and direction commands in turn
\* Both motors are at rest after motordriver_init; the shell runs MaxCmds commands
\* out of set-speed, Zset-speed, set-dir and motors set, one after the other, while
\* the timers run.  motordriver_stop_motors is not called.
InitCmds ==
    /\ motor = [m \in Motors |-> InitMotorRecord]
    /\ pwm_duty = [m \in Motors |-> -1]
    /\ dir_pin = [m \in Motors |-> -1]
    /\ mutex = [m \in Motors |-> Free]
    /\ timer = [m \in Motors |-> 0]
    /\ tpc = [m \in Motors |-> "idle"]
    /\ sh = IdleShell
    /\ epc = EstopIdle
    /\ budget = [cmds |-> MaxCmds, fails |-> MaxPwmFail]
    /\ hist = NoHist

NextCmds ==
    \/ \E m \in Motors, str \in DirArgs : cmd_motor_set_dir(m, str)
    \/ \E m \in Motors, str \in SpeedArgs : cmd_motor_set_speed(m, str)
    \/ \E m \in Motors, str \in UnsafeSpeedArgs : cmd_motor_unsafe_set_speed(m, str)
    \/ \E str1, str2 \in MotorsSpeedArgs, dstr1, dstr2 \in DirArgs :
          cmd_motors_set(str1, dstr1, str2, dstr2)
    \/ ShAdjustLocked
    \/ ShSetDirLock \/ ShSetDirRamp
    \/ ShSetSpeedLocked
    \/ ShMotorsStart \/ ShMotorsPoll \/ ShMotorsSettle
    \/ Timers

SpecCmds == InitCmds /\ [][NextCmds]_vars

\* the same, with the scheduling: the shell thread goes on whenever it can, an
\* armed timer expires and an expiry function runs to its end
SpecCmdsFair ==
    /\ SpecCmds
    /\ WF_vars(ShAdjustLocked) /\ WF_vars(ShSetDirLock) /\ WF_vars(ShSetDirRamp)
    /\ WF_vars(ShSetSpeedLocked)
    /\ WF_vars(ShMotorsStart) /\ WF_vars(ShMotorsPoll) /\ WF_vars(ShMotorsSettle)
    /\ \A m \in Motors :
         /\ WF_vars(TimerExpire(m)) /\ WF_vars(TimerExpireWait(m))
         /\ WF_vars(TimerLock(m)) /\ WF_vars(TimerApply(m))

\* C32: set_motors, called in any state the commands before it have left, leaves
\* its monitoring loop.
C32_SetMotorsLeavesLoop ==
    (sh.pc = "sm_poll") ~> (sh.pc # "sm_poll")

\* the value a set-speed argument of SpeedArgs asks for
SpeedValues == {simple_strtou8(str) : str \in SpeedArgs}

\* C33: after the adjust call of a set-speed command with argument X, the last
\* command of the run, with every pwm_set succeeding, the motor reaches
\* speed == min(X, 100).
C33_SpeedCommandTakesEffect ==
    \A m \in Motors, x \in SpeedValues :
        [](budget.fails = MaxPwmFail) =>
            ((sh.op = "set_speed" /\ sh.pc = "aa_lock" /\ sh.m = m /\ sh.val = x
                /\ budget.cmds = 0)
               ~> (motor[m].speed = Min(x, 100)))


\* ------------------------------------------------- waiting for a motor's mutex
\* Motor 1 runs in either direction, at rest or converging, with a braking rate of
\* 10 or 30 (config-brak-rate accepts both); set-dir and set-speed commands
\* follow while the timers run and motordriver_stop_motors is called any number
\* of times.
LockRates == {DefaultRate, 30}

InitLocks ==
    /\ \E s0 \in ArgSpeeds, t0 \in ArgSpeeds, d0 \in BOOLEAN, b0 \in LockRates :
         /\ motor = [m \in Motors |->
                       IF m = 1 THEN [InitMotorRecord EXCEPT
                                        !.speed = s0, !.target_speed = t0,
                                        !.direction = d0, !.braking_rate = b0]
                       ELSE InitMotorRecord]
         /\ timer = [m \in Motors |-> TimerRearm(motor[m])]
    /\ pwm_duty = [m \in Motors |-> DutyCycleNs(motor[m].speed)]
    /\ dir_pin = [m \in Motors |-> IF motor[m].direction THEN 1 ELSE -1]
    /\ mutex = [m \in Motors |-> Free]
    /\ tpc = [m \in Motors |-> "idle"]
    /\ sh = IdleShell
    /\ epc = EstopIdle
    /\ budget = [cmds |-> MaxDirCmds, fails |-> MaxPwmFail]
    /\ hist = NoHist

NextLocks ==
    \/ \E m \in Motors, str \in DirArgs : cmd_motor_set_dir(m, str)
    \/ \E m \in Motors, str \in SpeedArgs : cmd_motor_set_speed(m, str)
    \/ ShSetDirLock \/ ShSetDirRamp \/ ShAdjustLocked
    \/ StopMotors \/ EstopAdjustLocked
    \/ Timers

SpecLocks == InitLocks /\ [][NextLocks]_vars

\* the same, with the scheduling: a thread that can go on does, an armed timer
\* expires, and a context that waits for a free mutex gets it
SpecLocksFair ==
    /\ SpecLocks
    /\ WF_vars(ShSetDirLock) /\ WF_vars(ShSetDirRamp) /\ WF_vars(ShAdjustLocked)
    /\ WF_vars(EstopAdjustLocked)
    /\ \A m \in Motors :
         /\ WF_vars(TimerExpire(m)) /\ WF_vars(TimerExpireWait(m))
         /\ WF_vars(TimerLock(m)) /\ WF_vars(TimerApply(m))

\* C35: an expiry function, a stop caller and the shell thread that wait in
\* k_mutex_lock each get the mutex, and a mutex that is held becomes free.
C35_LockWaitsEnd ==
    /\ \A m \in Motors : (tpc[m] = "lock") ~> (tpc[m] # "lock")
    /\ \A m \in Motors : (epc = [pc |-> "aa_lock", m |-> m])
                            ~> (epc # [pc |-> "aa_lock", m |-> m])
    /\ (sh.pc = "aa_lock") ~> (sh.pc # "aa_lock")
    /\ (sh.pc = "sd_lock") ~> (sh.pc # "sd_lock")
    /\ \A m \in Motors : (mutex[m] # Free) ~> (mutex[m] = Free)

\* ------------------------------------------------------------ lock balance
\* the mutex of motor m as the operations in progress on m leave it: held once by
\* the shell thread inside motordriver_set_dir's ramp, held once by the expiry
\* function between its speed step and its return, free otherwise
MutexExpected(m) ==
    IF sh.pc = "sd_ramp" /\ sh.m = m THEN [owner |-> "shell", lock_count |-> 1]
    ELSE IF tpc[m] = "apply" THEN [owner |-> TimerCtx(m), lock_count |-> 1]
    ELSE Free

\* C36: every lock of a motor's mutex is matched by one unlock: while set_dir or
\* the expiry function is between its own lock and unlock the mutex is held
\* exactly once by it, whatever nested set_speed calls have run, and with no
\* operation in progress on the motor the mutex is free with lock count 0
\* (checked on SpecCmds).
C36_LocksBalanced ==
    \A m \in Motors : mutex[m] = MutexExpected(m)

\* C36 witness: `motor1 Zset-speed 150` and then `motor1 set-dir 1`: set_dir has
\* run one iteration of its ramp (100 to 90), set_speed has locked and unlocked
\* the mutex inside it, and set_dir still holds the mutex once
C36_Witness ==
    /\ sh.pc = "sd_ramp" /\ sh.m = 1 /\ budget.cmds = 0
    /\ motor[1].speed = 90 /\ motor[1].target_speed = 0
    /\ pwm_duty[1] = DutyCycleNs(90)
    /\ mutex[1] = [owner |-> "shell", lock_count |-> 1]

\* ------------------------------------------------------ config-rate commands
\* After motordriver_init the shell receives config-acc-rate and config-brak-rate
\* commands for both motors with arguments of any kind.  A character that is no
\* digit is written 10 ("5x7" is <<5, 10, 7>>, "-1" is <<10, 1>>).
MaxRateCmds == 3

WideRateArgs ==
    {<<>>, <<0>>, <<1>>, <<9, 9>>, <<1, 0, 0>>, <<2, 5, 5>>, <<2, 5, 6>>, <<2, 5, 7>>,
     <<3, 5, 5>>, <<3, 5, 6>>, <<5, 10, 7>>, <<10, 1>>}

InitRates ==
    /\ motor = [m \in Motors |-> InitMotorRecord]
    /\ pwm_duty = [m \in Motors |-> 0]
    /\ dir_pin = [m \in Motors |-> -1]
    /\ mutex = [m \in Motors |-> Free]
    /\ timer = [m \in Motors |-> 0]
    /\ tpc = [m \in Motors |-> "idle"]
    /\ sh = IdleShell
    /\ epc = EstopIdle
    /\ budget = [cmds |-> MaxRateCmds, fails |-> 0]
    /\ hist = NoHist

NextRates ==
    \/ \E m \in Motors, str \in WideRateArgs : cmd_motor_config_acc_rate(m, str)
    \/ \E m \in Motors, str \in WideRateArgs : cmd_motor_config_brak_rate(m, str)
    \/ ShConfigWrite

SpecRates == InitRates /\ [][NextRates]_vars

\* the rates the spec allows
ValidRates == 1..99

=============================================================================
